---- MODULE Spec2Model ----
(***************************************************************************)
(* State-machine model of the sg-admin-backend HTTP server                 *)
(* (src/unnamed/part_000): users, whitelist, password-reset tokens and     *)
(* the file registry, kept in a MySQL/InnoDB database that every handler   *)
(* reaches through one query per await.  A handler is split into one       *)
(* action per database statement, because other requests run between two  *)
(* awaits of the same handler.                                             *)
(***************************************************************************)
EXTENDS Integers, Sequences, FiniteSets, Bags, TLC

(* ---------------- bounds and input domains ---------------- *)

\* concurrent request slots
Reqs == {1, 2}
\* inputs of the requests
Emails == {"a@x.com", "b@x.com"}
MalformedEmail == "not-an-email"
Passwords == {"pw1", "pw2"}
Filenames == {"f1.txt", "f2.txt"}
Salts == {"s1"}
\* AUTO_INCREMENT values handed out per table
MaxUsers == 2
MaxTokens == 2
MaxFiles == 2
\* files multer stores under uploads/
MaxUploads == 2
\* the clock: minutes, advanced ClockStep at a time, at most MaxTicks times
MaxTicks == 1
ClockStep == 15

(* ---------------- program constants ---------------- *)

\* DATE_ADD(NOW(), INTERVAL 15 MINUTE) and expiresIn: '15m'
ResetTokenMinutes == 15
\* expiresIn: '1h'
SessionMinutes == 60

(* ---------------- values ---------------- *)

\* jsonwebtoken: the signed payload {userId, iat, exp}; HS256 is deterministic,
\* so two tokens signed for the same user in the same clock instant are equal
NoJwt == [userId |-> 0, iat |-> 0, exp |-> 0, sig |-> "none"]
ForgedJwt == [userId |-> 1, iat |-> 0, exp |-> SessionMinutes, sig |-> "forged"]
\* a bearer string that is no JWT at all
MalformedJwt == [userId |-> 0, iat |-> 0, exp |-> 0, sig |-> "malformed"]
jwtSign(uid, t, minutes) == [userId |-> uid, iat |-> t, exp |-> t + minutes, sig |-> "ok"]

\* bcrypt: a salted one-way hash and its comparison
NoHash == [salt |-> "", plain |-> ""]
bcryptHash(p, s) == [salt |-> s, plain |-> p]
bcryptCompare(p, h) == h.plain = p

\* res.status(s).json(...)
NoResp == [status |-> 0, msg |-> "", token |-> NoJwt, userId |-> 0, fileId |-> 0,
           dbRecordDeleted |-> FALSE, physicalFileDeleted |-> FALSE, emails |-> {}]
Resp(s, m) == [NoResp EXCEPT !.status = s, !.msg = m]

IdleReq == [op |-> "none", pc |-> "idle", email |-> "", password |-> "",
            token |-> NoJwt, userId |-> 0, hashed |-> NoHash, pending |-> {},
            filename |-> "", path |-> 0, fileId |-> 0, unlinked |-> FALSE,
            resp |-> NoResp, seq |-> 0]

VARIABLES
    users,        \* table users: rows [id, email, password]
    nextUserId,   \* its AUTO_INCREMENT
    whitelist,    \* table whitelist_emails: a bag of rows [email]
    tokens,       \* table password_reset_tokens: rows [id, user_id, token, expires_at, used]
    nextTokenId,  \* its AUTO_INCREMENT
    files,        \* table files: rows [id, filename, path]
    nextFileId,   \* its AUTO_INCREMENT
    blobs,        \* uploads/: the paths that exist on disk
    nextPath,     \* multer's next generated path
    now,          \* NOW() / Date.now(), in minutes
    req,          \* the requests in flight
    last,         \* the request answered last, with its response
    interleaved   \* history: requests in flight during another request's write

vars == <<users, nextUserId, whitelist, tokens, nextTokenId, files, nextFileId,
          blobs, nextPath, now, req, last, interleaved>>

db == <<users, nextUserId, whitelist, tokens, nextTokenId, files, nextFileId, blobs, nextPath>>

Init ==
    /\ users = {}
    /\ nextUserId = 1
    /\ whitelist = EmptyBag
    /\ tokens = {}
    /\ nextTokenId = 1
    /\ files = {}
    /\ nextFileId = 1
    /\ blobs = {}
    /\ nextPath = 1
    /\ now = 0
    /\ req = [r \in Reqs |-> IdleReq]
    /\ last = IdleReq
    /\ interleaved = {}

(* ---------------- request bookkeeping ---------------- *)

Free(r) == req[r].pc = "idle"
InFlight(r) == ~Free(r)

\* a new request in slot r, at position pc
Start(op, pc, fields) ==
    [f \in DOMAIN IdleReq |->
        IF f = "op" THEN op
        ELSE IF f = "pc" THEN pc
        ELSE IF f \in DOMAIN fields THEN fields[f]
        ELSE IdleReq[f]]

\* the handler awaits its next statement
Continue(r, q) ==
    /\ req' = [req EXCEPT ![r] = q]
    /\ UNCHANGED last

\* the response is sent: the slot is free again, and the request's inputs and
\* its response are what the caller has seen last (seq tells two equal
\* responses in a row apart)
Respond(r, q, resp) ==
    /\ req' = [req EXCEPT ![r] = IdleReq]
    /\ last' = [q EXCEPT !.pc = "done", !.resp = resp, !.hashed = NoHash, !.pending = {},
                          !.seq = 1 - last.seq]

\* history variable: a request that is in flight while another request changes
\* the database is marked interleaved; the mark is dropped when the slot answers
Track(r) ==
    interleaved' =
        (IF db' # db
            THEN interleaved \cup {q \in Reqs \ {r} : InFlight(q)}
            ELSE interleaved)
        \ {q \in {r} : req'[r].pc = "idle"}

(* ---------------- authenticate middleware ---------------- *)

\* jwt.verify(token, JWT_SECRET): the signature is ours and the token has not expired
jwtVerify(t) == t.sig = "ok" /\ now < t.exp

\* the response authenticate sends itself, NoResp when it calls next()
authenticate(bearer) ==
    IF bearer = NoJwt THEN Resp(401, "Access denied")
    ELSE IF ~jwtVerify(bearer) THEN Resp(400, "Invalid token")
    ELSE NoResp

\* the bearer tokens a caller can present: none, a forged one, or one this
\* server signed and returned (a session token or a reset token: same key)
Bearers ==
    {NoJwt, ForgedJwt} \cup {t.token : t \in tokens} \cup {last.resp.token}

(* ---------------- POST /register ---------------- *)

UserByEmail(e) == {u \in users : u.email = e}
UserById(id) == {u \in users : u.id = id}

\* INSERT INTO users: the UNIQUE(email) constraint rejects a duplicate
InsertUserFails(e) == UserByEmail(e) # {}

Register(r, e, p, s) ==
    /\ Free(r)
    /\ IF InsertUserFails(e)
         THEN /\ Respond(r, Start("register", "done", [email |-> e, password |-> p]),
                                                Resp(500, "ER_DUP_ENTRY"))
              /\ UNCHANGED <<users, nextUserId>>
         ELSE /\ nextUserId <= MaxUsers
              /\ users' = users \cup {[id |-> nextUserId, email |-> e, password |-> bcryptHash(p, s)]}
              /\ nextUserId' = nextUserId + 1
              /\ Respond(r, Start("register", "done", [email |-> e, password |-> p]),
                                                Resp(201, "User created"))
    /\ UNCHANGED <<whitelist, tokens, nextTokenId, files, nextFileId, blobs, nextPath, now>>
    /\ Track(r)

(* ---------------- POST /login ---------------- *)

\* the login route without its whitelist query
IsWhitelistedUnchecked(e) == TRUE

\* SELECT 1 FROM whitelist_emails WHERE email = ?
IsWhitelisted(e) == \E w \in BagToSet(whitelist) : w.email = e

\* the same test without the bcrypt.compare
BadCredentialsNoCompare(us, p) == us = {}

\* users.length === 0 || !(await bcrypt.compare(password, users[0].password))
BadCredentials(us, p) == us = {} \/ \A u \in us : ~bcryptCompare(p, u.password)

LoginCheckWhitelist(r, e, p) ==
    /\ Free(r)
    /\ IF ~IsWhitelisted(e)
         THEN Respond(r, Start("login", "done", [email |-> e, password |-> p]),
                          Resp(403, "Access denied. Your email is not whitelisted."))
         ELSE Continue(r, Start("login", "selectUser", [email |-> e, password |-> p]))
    /\ UNCHANGED <<db, now>>
    /\ Track(r)

LoginSelectUser(r) ==
    /\ req[r].op = "login" /\ req[r].pc = "selectUser"
    /\ LET us == UserByEmail(req[r].email) IN
         IF BadCredentials(us, req[r].password)
           THEN Respond(r, req[r], Resp(401, "Invalid credentials"))
           ELSE LET u == CHOOSE x \in us : TRUE IN
                Respond(r, req[r], [Resp(200, "") EXCEPT
                                  !.token = jwtSign(u.id, now, SessionMinutes)])
    /\ UNCHANGED <<db, now>>
    /\ Track(r)

(* ---------------- POST /whitelist, DELETE /whitelist/:email ---------------- *)

\* /^[^\s@]+@[^\s@]+\.[^\s@]+$/ over the inputs of the model
EmailFormatOk(e) == e \in Emails

\* the insert into a table declared without UNIQUE on email
InsertWhitelistFailsNoUnique(e) == FALSE

\* INSERT INTO whitelist_emails: the UNIQUE constraint on email rejects a duplicate
InsertWhitelistFails(e) == IsWhitelisted(e)

WhitelistAdd(r, bearer, e) ==
    /\ Free(r)
    /\ LET q == Start("whitelistAdd", "done", [email |-> e, token |-> bearer]) IN
         IF authenticate(bearer) # NoResp
           THEN Respond(r, q, authenticate(bearer)) /\ UNCHANGED whitelist
         ELSE IF ~EmailFormatOk(e)
           THEN Respond(r, q, Resp(400, "Invalid email format")) /\ UNCHANGED whitelist
         ELSE IF InsertWhitelistFails(e)
           THEN Respond(r, q, Resp(409, "Email already exists in whitelist"))
                /\ UNCHANGED whitelist
         ELSE /\ whitelist' = whitelist (+) SetToBag({[email |-> e]})
              /\ Respond(r, q, Resp(201, "Email added to whitelist"))
    /\ UNCHANGED <<users, nextUserId, tokens, nextTokenId, files, nextFileId, blobs, nextPath, now>>
    /\ Track(r)

WhitelistRemove(r, bearer, e) ==
    /\ Free(r)
    /\ LET q == Start("whitelistRemove", "done", [email |-> e, token |-> bearer]) IN
         IF authenticate(bearer) # NoResp
           THEN Respond(r, q, authenticate(bearer)) /\ UNCHANGED whitelist
         ELSE IF ~IsWhitelisted(e)
           THEN Respond(r, q, Resp(404, "Email not found in whitelist"))
                /\ UNCHANGED whitelist
         ELSE /\ whitelist' = [w \in {x \in BagToSet(whitelist) : x.email # e} |-> whitelist[w]]
              /\ Respond(r, q, Resp(200, "Email removed from whitelist"))
    /\ UNCHANGED <<users, nextUserId, tokens, nextTokenId, files, nextFileId, blobs, nextPath, now>>
    /\ Track(r)

\* GET /whitelist: SELECT email FROM whitelist_emails ORDER BY created_at DESC
\* (the rows carry no created_at here: the response is the set of the emails)
WhitelistList(r, bearer) ==
    /\ Free(r)
    /\ LET q == Start("whitelistList", "done", [token |-> bearer]) IN
         IF authenticate(bearer) # NoResp
           THEN Respond(r, q, authenticate(bearer))
           ELSE Respond(r, q, [Resp(200, "") EXCEPT !.emails = {w.email : w \in BagToSet(whitelist)}])
    /\ UNCHANGED <<db, now>>
    /\ Track(r)

(* ---------------- InnoDB locks of an open DELETE /user transaction ---------------- *)

\* between its DELETE FROM password_reset_tokens and its commit, a transaction
\* holds row locks on the token rows it deleted and a gap lock on its user_id
TxOpen(q) == req[q].op = "deleteUser" /\ req[q].pc = "deleteUser"
LockedTokenRows(r) == UNION {req[q].pending : q \in {x \in Reqs \ {r} : TxOpen(x)}}
UserIdGapLocked(r, uid) == \E q \in Reqs \ {r} : TxOpen(q) /\ req[q].userId = uid

(* ---------------- POST /request-password-reset ---------------- *)

\* rows a request may still insert are counted against the AUTO_INCREMENT bound
InsertsInFlight == Cardinality({q \in Reqs : req[q].pc = "insertToken"})

RequestResetSelect(r, e) ==
    /\ Free(r)
    /\ LET us == UserByEmail(e) IN
         IF us = {}
           THEN Respond(r, Start("requestReset", "done", [email |-> e]),
                                               Resp(404, "User not found"))
           ELSE /\ nextTokenId + InsertsInFlight <= MaxTokens
                /\ LET u == CHOOSE x \in us : TRUE IN
                   Continue(r, Start("requestReset", "insertToken",
                              [email |-> e, userId |-> u.id,
                               token |-> jwtSign(u.id, now, ResetTokenMinutes)]))
    /\ UNCHANGED <<db, now>>
    /\ Track(r)

\* the same insert into a table declared without the FOREIGN KEY
RequestResetInsertNoForeignKey(r) ==
    /\ req[r].op = "requestReset" /\ req[r].pc = "insertToken"
    /\ ~UserIdGapLocked(r, req[r].userId)
    /\ tokens' = tokens \cup {[id |-> nextTokenId, user_id |-> req[r].userId,
                               token |-> req[r].token,
                               expires_at |-> now + ResetTokenMinutes, used |-> FALSE]}
    /\ nextTokenId' = nextTokenId + 1
    /\ Respond(r, req[r], [Resp(200, "Password reset token generated")
                                           EXCEPT !.token = req[r].token])
    /\ UNCHANGED <<users, nextUserId, whitelist, files, nextFileId, blobs, nextPath, now>>
    /\ Track(r)

\* INSERT INTO password_reset_tokens: FOREIGN KEY (user_id) REFERENCES users(id)
RequestResetInsert(r) ==
    /\ req[r].op = "requestReset" /\ req[r].pc = "insertToken"
    /\ ~UserIdGapLocked(r, req[r].userId)
    /\ IF UserById(req[r].userId) = {}
         THEN /\ Respond(r, req[r], Resp(500, "ER_NO_REFERENCED_ROW"))
              /\ UNCHANGED <<tokens, nextTokenId>>
         ELSE /\ tokens' = tokens \cup {[id |-> nextTokenId, user_id |-> req[r].userId,
                                         token |-> req[r].token,
                                         expires_at |-> now + ResetTokenMinutes, used |-> FALSE]}
              /\ nextTokenId' = nextTokenId + 1
              /\ Respond(r, req[r], [Resp(200, "Password reset token generated")
                                                     EXCEPT !.token = req[r].token])
    /\ UNCHANGED <<users, nextUserId, whitelist, files, nextFileId, blobs, nextPath, now>>
    /\ Track(r)

(* ---------------- POST /verify-reset-token, POST /reset-password ---------------- *)

\* the reset tokens a caller can present: one stored, one returned, or a made-up one
BogusToken == [userId |-> 1, iat |-> 0, exp |-> ResetTokenMinutes, sig |-> "bogus"]
TokenInputs == {BogusToken} \cup {t.token : t \in tokens}
                  \cup {last.resp.token : x \in {y \in {last} : y.op = "requestReset" /\ y.resp.status = 200}}

\* the same query with expires_at >= NOW()
SelectValidTokensAtExpiry(tok) ==
    {t \in tokens : t.token = tok /\ t.used = FALSE /\ t.expires_at >= now}

\* SELECT * FROM password_reset_tokens WHERE token = ? AND used = FALSE AND expires_at > NOW()
SelectValidTokens(tok) ==
    {t \in tokens : t.token = tok /\ t.used = FALSE /\ t.expires_at > now}

\* tokens[0]: the first row in primary-key order
FirstRow(rows) == CHOOSE t \in rows : \A o \in rows : t.id <= o.id

VerifyResetToken(r, tok) ==
    /\ Free(r)
    /\ LET rows == SelectValidTokens(tok)
           q == Start("verifyToken", "done", [token |-> tok]) IN
         IF rows = {}
           THEN Respond(r, q, Resp(400, "Invalid or expired token"))
           ELSE Respond(r, q, [Resp(200, "valid") EXCEPT
                                                   !.userId = FirstRow(rows).user_id])
    /\ UNCHANGED <<db, now>>
    /\ Track(r)

ResetValidate(r, tok, p, s) ==
    /\ Free(r)
    /\ LET rows == SelectValidTokens(tok) IN
         IF rows = {}
           THEN Respond(r, Start("resetPassword", "done", [token |-> tok, password |-> p]),
                                               Resp(400, "Invalid or expired token"))
           ELSE Continue(r, Start("resetPassword", "updatePassword",
                              [token |-> tok, password |-> p,
                               userId |-> FirstRow(rows).user_id, hashed |-> bcryptHash(p, s)]))
    /\ UNCHANGED <<db, now>>
    /\ Track(r)

\* UPDATE users SET password = ? WHERE id = ?
ResetUpdatePassword(r) ==
    /\ req[r].op = "resetPassword" /\ req[r].pc = "updatePassword"
    /\ users' = {IF u.id = req[r].userId THEN [u EXCEPT !.password = req[r].hashed] ELSE u : u \in users}
    /\ Continue(r, [req[r] EXCEPT !.pc = "markUsed"])
    /\ UNCHANGED <<nextUserId, whitelist, tokens, nextTokenId, files, nextFileId, blobs, nextPath, now>>
    /\ Track(r)

\* the same update WHERE id = tokens[0].id: one row only
ResetMarkUsedFirstRow(r) ==
    /\ req[r].op = "resetPassword" /\ req[r].pc = "markUsed"
    /\ LockedTokenRows(r) = {}
    /\ LET rows == {t \in tokens : t.token = req[r].token} IN
         tokens' = {IF rows # {} /\ t = FirstRow(rows) THEN [t EXCEPT !.used = TRUE] ELSE t : t \in tokens}
    /\ Respond(r, req[r], Resp(200, "Password updated successfully"))
    /\ UNCHANGED <<users, nextUserId, whitelist, nextTokenId, files, nextFileId, blobs, nextPath, now>>
    /\ Track(r)

\* the same step as DELETE FROM password_reset_tokens WHERE token = ?
ResetMarkUsedDeletes(r) ==
    /\ req[r].op = "resetPassword" /\ req[r].pc = "markUsed"
    /\ LockedTokenRows(r) = {}
    /\ tokens' = {t \in tokens : t.token # req[r].token}
    /\ Respond(r, req[r], Resp(200, "Password updated successfully"))
    /\ UNCHANGED <<users, nextUserId, whitelist, nextTokenId, files, nextFileId, blobs, nextPath, now>>
    /\ Track(r)

\* the same step as UPDATE password_reset_tokens SET used = TRUE WHERE user_id = ?
ResetMarkUsedAllOfUser(r) ==
    /\ req[r].op = "resetPassword" /\ req[r].pc = "markUsed"
    /\ LockedTokenRows(r) = {}
    /\ tokens' = {IF t.user_id = req[r].userId THEN [t EXCEPT !.used = TRUE] ELSE t : t \in tokens}
    /\ Respond(r, req[r], Resp(200, "Password updated successfully"))
    /\ UNCHANGED <<users, nextUserId, whitelist, nextTokenId, files, nextFileId, blobs, nextPath, now>>
    /\ Track(r)

\* UPDATE password_reset_tokens SET used = TRUE WHERE token = ?
\* (no index on token: the scan waits for any row another transaction has locked)
ResetMarkUsed(r) ==
    /\ req[r].op = "resetPassword" /\ req[r].pc = "markUsed"
    /\ LockedTokenRows(r) = {}
    /\ tokens' = {IF t.token = req[r].token THEN [t EXCEPT !.used = TRUE] ELSE t : t \in tokens}
    /\ Respond(r, req[r], Resp(200, "Password updated successfully"))
    /\ UNCHANGED <<users, nextUserId, whitelist, nextTokenId, files, nextFileId, blobs, nextPath, now>>
    /\ Track(r)

(* ---------------- DELETE /user ---------------- *)

\* the same handler deleting the tokens on a pooled connection (autocommit)
\* before it has compared the password
DeleteAccountSelectDeletesFirst(r, bearer, p) ==
    /\ Free(r)
    /\ LET q == Start("deleteUser", "done", [token |-> bearer, password |-> p, userId |-> bearer.userId])
           us == UserById(bearer.userId) IN
         IF authenticate(bearer) # NoResp
           THEN Respond(r, q, authenticate(bearer)) /\ UNCHANGED tokens
         ELSE IF BadCredentials(us, p)
           THEN /\ Respond(r, q, Resp(401, "Invalid password"))
                /\ tokens' = {t \in tokens : t.user_id # bearer.userId}
         ELSE Continue(r, [q EXCEPT !.pc = "deleteTokens"]) /\ UNCHANGED tokens
    /\ UNCHANGED <<users, nextUserId, whitelist, nextTokenId, files, nextFileId, blobs, nextPath, now>>
    /\ Track(r)

\* authenticate, beginTransaction, SELECT id, password FROM users WHERE id = ?
DeleteAccountSelect(r, bearer, p) ==
    /\ Free(r)
    /\ LET q == Start("deleteUser", "done", [token |-> bearer, password |-> p, userId |-> bearer.userId])
           us == UserById(bearer.userId) IN
         IF authenticate(bearer) # NoResp
           THEN Respond(r, q, authenticate(bearer))
         ELSE IF BadCredentials(us, p)
           THEN Respond(r, q, Resp(401, "Invalid password"))
         ELSE Continue(r, [q EXCEPT !.pc = "deleteTokens"])
    /\ UNCHANGED <<db, now>>
    /\ Track(r)

\* the same statement outside a transaction: the rows are gone at once
DeleteAccountTokensAutocommit(r) ==
    /\ req[r].op = "deleteUser" /\ req[r].pc = "deleteTokens"
    /\ tokens' = {t \in tokens : t.user_id # req[r].userId}
    /\ Continue(r, [req[r] EXCEPT !.pc = "deleteUser"])
    /\ UNCHANGED <<users, nextUserId, whitelist, nextTokenId, files, nextFileId, blobs, nextPath, now>>
    /\ Track(r)

\* DELETE FROM password_reset_tokens WHERE user_id = ?  (inside the transaction:
\* the rows are locked and their removal is pending until the commit)
DeleteAccountTokens(r) ==
    /\ req[r].op = "deleteUser" /\ req[r].pc = "deleteTokens"
    /\ \A t \in LockedTokenRows(r) : t.user_id # req[r].userId
    /\ Continue(r, [req[r] EXCEPT !.pc = "deleteUser",
                          !.pending = {t \in tokens : t.user_id = req[r].userId}])
    /\ UNCHANGED <<db, now>>
    /\ Track(r)

\* DELETE FROM users WHERE id = ?, then commit, or rollback on zero affected rows
DeleteAccountUser(r) ==
    /\ req[r].op = "deleteUser" /\ req[r].pc = "deleteUser"
    /\ LET us == UserById(req[r].userId)
           left == {t \in tokens : t.user_id = req[r].userId} \ req[r].pending IN
         IF us = {}
           THEN /\ Respond(r, req[r], Resp(404, "User not found"))
                /\ UNCHANGED <<users, tokens>>
         ELSE IF left # {}
           THEN /\ Respond(r, req[r], Resp(500, "ER_ROW_IS_REFERENCED"))
                /\ UNCHANGED <<users, tokens>>
         ELSE /\ users' = users \ us
              /\ tokens' = tokens \ req[r].pending
              /\ Respond(r, req[r], Resp(200, "User account deleted successfully"))
    /\ UNCHANGED <<nextUserId, whitelist, nextTokenId, files, nextFileId, blobs, nextPath, now>>
    /\ Track(r)

(* ---------------- the clock ---------------- *)

Tick ==
    /\ now + ClockStep <= MaxTicks * ClockStep
    /\ now' = now + ClockStep
    /\ UNCHANGED <<db, req, last, interleaved>>

(* ---------------- POST /upload ---------------- *)

NoFile == ""
FileByName(f) == {x \in files : x.filename = f}
FileById(id) == {x \in files : x.id = id}
FileInsertsInFlight == Cardinality({q \in Reqs : req[q].pc = "insertFile"})

\* authenticate, upload.single('file') stores the blob, then
\* SELECT id FROM files WHERE filename = ?
UploadSelect(r, bearer, f) ==
    /\ Free(r)
    /\ LET q == Start("upload", "done", [token |-> bearer, filename |-> f]) IN
         IF authenticate(bearer) # NoResp
           THEN /\ Respond(r, q, authenticate(bearer))
                /\ UNCHANGED <<blobs, nextPath>>
         ELSE IF f = NoFile
           THEN /\ Respond(r, q, Resp(400, "No file uploaded"))
                /\ UNCHANGED <<blobs, nextPath>>
         ELSE /\ nextPath <= MaxUploads
              /\ blobs' = blobs \cup {nextPath}
              /\ nextPath' = nextPath + 1
              /\ IF FileByName(f) # {}
                   THEN Respond(r, [q EXCEPT !.path = nextPath],
                                      Resp(400, "File with this name already exists"))
                   ELSE /\ nextFileId + FileInsertsInFlight <= MaxFiles
                        /\ Continue(r, [q EXCEPT !.pc = "insertFile", !.path = nextPath])
    /\ UNCHANGED <<users, nextUserId, whitelist, tokens, nextTokenId, files, nextFileId, now>>
    /\ Track(r)

\* the insert into a table declared without UNIQUE(filename)
InsertFileFailsNoUnique(f) == FALSE

\* INSERT INTO files: the UNIQUE(filename) constraint rejects a duplicate
InsertFileFails(f) == FileByName(f) # {}

UploadInsert(r) ==
    /\ req[r].op = "upload" /\ req[r].pc = "insertFile"
    /\ IF InsertFileFails(req[r].filename)
         THEN /\ Respond(r, req[r], Resp(500, "ER_DUP_ENTRY"))
              /\ UNCHANGED <<files, nextFileId>>
         ELSE /\ files' = files \cup {[id |-> nextFileId, filename |-> req[r].filename,
                                       path |-> req[r].path]}
              /\ nextFileId' = nextFileId + 1
              /\ Respond(r, req[r], [Resp(200, "File uploaded successfully")
                                                     EXCEPT !.fileId = nextFileId])
    /\ UNCHANGED <<users, nextUserId, whitelist, tokens, nextTokenId, blobs, nextPath, now>>
    /\ Track(r)

(* ---------------- DELETE /files/:id ---------------- *)

\* the same handler without its step 2: from the SELECT straight to the DELETE
DeleteFileSelectSkipsUnlink(r, id) ==
    /\ Free(r)
    /\ LET q == Start("deleteFile", "done", [fileId |-> id])
           rows == FileById(id) IN
         IF rows = {}
           THEN Respond(r, q, Resp(404, "File not found in database"))
           ELSE Continue(r, [q EXCEPT !.pc = "deleteRecord",
                                                    !.path = (CHOOSE x \in rows : TRUE).path])
    /\ UNCHANGED <<db, now>>
    /\ Track(r)

\* SELECT id, path FROM files WHERE id = ?
DeleteFileSelect(r, id) ==
    /\ Free(r)
    /\ LET q == Start("deleteFile", "done", [fileId |-> id])
           rows == FileById(id) IN
         IF rows = {}
           THEN Respond(r, q, Resp(404, "File not found in database"))
           ELSE Continue(r, [q EXCEPT !.pc = "unlink",
                                                    !.path = (CHOOSE x \in rows : TRUE).path])
    /\ UNCHANGED <<db, now>>
    /\ Track(r)

\* try { await fs.unlink(filePath) } catch { /* continue */ }
\* (unlink fails when the blob is missing, and may fail on a blob that exists:
\* ok is the file system's answer; the handler goes on either way)
DeleteFileUnlink(r, ok) ==
    /\ req[r].op = "deleteFile" /\ req[r].pc = "unlink"
    /\ LET done == ok /\ req[r].path \in blobs IN
         /\ blobs' = (IF done THEN blobs \ {req[r].path} ELSE blobs)
         /\ Continue(r, [req[r] EXCEPT !.pc = "deleteRecord", !.unlinked = done])
    /\ UNCHANGED <<users, nextUserId, whitelist, tokens, nextTokenId, files, nextFileId, nextPath, now>>
    /\ Track(r)

\* DELETE FROM files WHERE id = ?
DeleteFileRecord(r) ==
    /\ req[r].op = "deleteFile" /\ req[r].pc = "deleteRecord"
    /\ files' = files \ FileById(req[r].fileId)
    /\ Respond(r, req[r], [Resp(200, "File deleted completely") EXCEPT
                       !.dbRecordDeleted = (Cardinality(FileById(req[r].fileId)) = 1),
                       !.physicalFileDeleted = TRUE,
                       !.fileId = req[r].fileId])
    /\ UNCHANGED <<users, nextUserId, whitelist, tokens, nextTokenId, nextFileId, blobs, nextPath, now>>
    /\ Track(r)

(* ---------------- specifications ---------------- *)

\* the account operations, on the emails ES and the passwords PS
AuthStep(ES, PS) ==
    \/ \E r \in Reqs, e \in ES, p \in PS, s \in Salts : Register(r, e, p, s)
    \/ \E r \in Reqs, e \in ES, p \in PS : LoginCheckWhitelist(r, e, p)
    \/ \E r \in Reqs : LoginSelectUser(r)
    \/ \E r \in Reqs, b \in Bearers, e \in ES \cup {MalformedEmail} : WhitelistAdd(r, b, e)
    \/ \E r \in Reqs, b \in Bearers, e \in ES : WhitelistRemove(r, b, e)
    \/ \E r \in Reqs, b \in Bearers : WhitelistList(r, b)
    \/ \E r \in Reqs, e \in ES : RequestResetSelect(r, e)
    \/ \E r \in Reqs : RequestResetInsert(r)
    \/ \E r \in Reqs, t \in TokenInputs : VerifyResetToken(r, t)
    \/ \E r \in Reqs, t \in TokenInputs, p \in PS, s \in Salts : ResetValidate(r, t, p, s)
    \/ \E r \in Reqs : ResetUpdatePassword(r)
    \/ \E r \in Reqs : ResetMarkUsed(r)
    \/ \E r \in Reqs, b \in Bearers, p \in PS : DeleteAccountSelect(r, b, p)
    \/ \E r \in Reqs : DeleteAccountTokens(r)
    \/ \E r \in Reqs : DeleteAccountUser(r)

FileStep ==
    \/ \E r \in Reqs, b \in Bearers, f \in Filenames \cup {NoFile} : UploadSelect(r, b, f)
    \/ \E r \in Reqs : UploadInsert(r)
    \/ \E r \in Reqs, id \in 1..MaxFiles : DeleteFileSelect(r, id)
    \/ \E r \in Reqs, ok \in BOOLEAN : DeleteFileUnlink(r, ok)
    \/ \E r \in Reqs : DeleteFileRecord(r)

Next == AuthStep(Emails, Passwords) \/ FileStep \/ Tick

Spec == Init /\ [][Next]_vars

\* password-reset tokens: issue, verify, consume, expire
ResetStep(ES, PS) ==
    \/ \E r \in Reqs, e \in ES, p \in PS, s \in Salts : Register(r, e, p, s)
    \/ \E r \in Reqs, e \in ES : RequestResetSelect(r, e)
    \/ \E r \in Reqs : RequestResetInsert(r)
    \/ \E r \in Reqs, t \in TokenInputs : VerifyResetToken(r, t)
    \/ \E r \in Reqs, t \in TokenInputs, p \in PS, s \in Salts : ResetValidate(r, t, p, s)
    \/ \E r \in Reqs : ResetUpdatePassword(r)
    \/ \E r \in Reqs : ResetMarkUsed(r)

NextReset == ResetStep({"a@x.com"}, Passwords) \/ Tick
SpecReset == Init /\ [][NextReset]_vars

\* account deletion among token requests and password resets
DeleteStep(ES, PS) ==
    \/ \E r \in Reqs, e \in ES, p \in PS, s \in Salts : Register(r, e, p, s)
    \/ \E r \in Reqs, e \in ES : RequestResetSelect(r, e)
    \/ \E r \in Reqs : RequestResetInsert(r)
    \/ \E r \in Reqs, t \in TokenInputs, p \in PS, s \in Salts : ResetValidate(r, t, p, s)
    \/ \E r \in Reqs : ResetUpdatePassword(r)
    \/ \E r \in Reqs : ResetMarkUsed(r)
    \/ \E r \in Reqs, b \in Bearers, p \in PS : DeleteAccountSelect(r, b, p)
    \/ \E r \in Reqs : DeleteAccountTokens(r)
    \/ \E r \in Reqs : DeleteAccountUser(r)

NextDelete == DeleteStep({"a@x.com"}, Passwords)
SpecDelete == Init /\ [][NextDelete]_vars

\* registration, the whitelist, login and password reset
LoginStep(ES, PS) ==
    \/ \E r \in Reqs, e \in ES, p \in PS, s \in Salts : Register(r, e, p, s)
    \/ \E r \in Reqs, e \in ES, p \in PS : LoginCheckWhitelist(r, e, p)
    \/ \E r \in Reqs : LoginSelectUser(r)
    \/ \E r \in Reqs, b \in Bearers, e \in ES \cup {MalformedEmail} : WhitelistAdd(r, b, e)
    \/ \E r \in Reqs, b \in Bearers, e \in ES : WhitelistRemove(r, b, e)
    \/ \E r \in Reqs, e \in ES : RequestResetSelect(r, e)
    \/ \E r \in Reqs : RequestResetInsert(r)
    \/ \E r \in Reqs, t \in TokenInputs, p \in PS, s \in Salts : ResetValidate(r, t, p, s)
    \/ \E r \in Reqs : ResetUpdatePassword(r)
    \/ \E r \in Reqs : ResetMarkUsed(r)
    \/ \E r \in Reqs, b \in Bearers, p \in PS : DeleteAccountSelect(r, b, p)
    \/ \E r \in Reqs : DeleteAccountTokens(r)
    \/ \E r \in Reqs : DeleteAccountUser(r)

NextLogin == LoginStep({"a@x.com"}, Passwords)
SpecLogin == Init /\ [][NextLogin]_vars

\* the file registry; register and request-password-reset supply the bearer token
UploadStep(ES, PS) ==
    \/ \E r \in Reqs, e \in ES, p \in PS, s \in Salts : Register(r, e, p, s)
    \/ \E r \in Reqs, e \in ES : RequestResetSelect(r, e)
    \/ \E r \in Reqs : RequestResetInsert(r)

NextFiles == UploadStep({"a@x.com"}, {"pw1"}) \/ FileStep
SpecFiles == Init /\ [][NextFiles]_vars

\* the routes behind authenticate, called with any bearer, while tokens expire
ProtectedStep(ES, PS) ==
    \/ \E r \in Reqs, e \in ES, p \in PS, s \in Salts : Register(r, e, p, s)
    \/ \E r \in Reqs, e \in ES : RequestResetSelect(r, e)
    \/ \E r \in Reqs : RequestResetInsert(r)
    \/ \E r \in Reqs, b \in Bearers \cup {MalformedJwt}, e \in ES : WhitelistAdd(r, b, e)
    \/ \E r \in Reqs, b \in Bearers \cup {MalformedJwt}, e \in ES : WhitelistRemove(r, b, e)
    \/ \E r \in Reqs, b \in Bearers \cup {MalformedJwt} : WhitelistList(r, b)
    \/ \E r \in Reqs, b \in Bearers \cup {MalformedJwt}, p \in PS : DeleteAccountSelect(r, b, p)
    \/ \E r \in Reqs : DeleteAccountTokens(r)
    \/ \E r \in Reqs : DeleteAccountUser(r)
    \/ \E r \in Reqs, b \in Bearers \cup {MalformedJwt}, f \in {"f1.txt"} : UploadSelect(r, b, f)
    \/ \E r \in Reqs : UploadInsert(r)

NextProtected == ProtectedStep({"a@x.com"}, {"pw1"}) \/ Tick
SpecProtected == Init /\ [][NextProtected]_vars

\* the life of a reset token: issued, verified, consumed, expired, deleted with its user
TokenStep(ES, PS) ==
    \/ \E r \in Reqs, e \in ES, p \in PS, s \in Salts : Register(r, e, p, s)
    \/ \E r \in Reqs, e \in ES : RequestResetSelect(r, e)
    \/ \E r \in Reqs : RequestResetInsert(r)
    \/ \E r \in Reqs, t \in TokenInputs : VerifyResetToken(r, t)
    \/ \E r \in Reqs, t \in TokenInputs, p \in PS, s \in Salts : ResetValidate(r, t, p, s)
    \/ \E r \in Reqs : ResetUpdatePassword(r)
    \/ \E r \in Reqs : ResetMarkUsed(r)
    \/ \E r \in Reqs, b \in Bearers, p \in PS : DeleteAccountSelect(r, b, p)
    \/ \E r \in Reqs : DeleteAccountTokens(r)
    \/ \E r \in Reqs : DeleteAccountUser(r)

NextTokens == TokenStep({"a@x.com"}, {"pw1"}) \/ Tick
SpecTokens == Init /\ [][NextTokens]_vars

\* password resets among several users: the users ES register with a password
\* of PS, those of RS ask for reset tokens, and passwords are reset to one of NS
FrameStep(ES, RS, PS, NS) ==
    \/ \E r \in Reqs, e \in ES, p \in PS, s \in Salts : Register(r, e, p, s)
    \/ \E r \in Reqs, e \in RS : RequestResetSelect(r, e)
    \/ \E r \in Reqs : RequestResetInsert(r)
    \/ \E r \in Reqs, t \in TokenInputs, p \in NS, s \in Salts : ResetValidate(r, t, p, s)
    \/ \E r \in Reqs : ResetUpdatePassword(r)
    \/ \E r \in Reqs : ResetMarkUsed(r)

NextFrame == FrameStep(Emails, {"a@x.com"}, {"pw1"}, {"pw2"}) \/ Tick
SpecFrame == Init /\ [][NextFrame]_vars

(* ======================= properties ======================= *)

IsReset(q) == q.op = "resetPassword"
IsDelete(q) == q.op = "deleteUser"

\* slot r sends its response in this step
Answers(r) == req[r].pc # "idle" /\ req'[r].pc = "idle"
\* a request that takes a single step is answered in this step
AnswersAtOnce(op) == last' # last /\ last'.op = op /\ req' = req

InvalidOrExpired == Resp(400, "Invalid or expired token")

(* C1: for a reset token T and any number of interleaved resetPassword(T, p)   *)
(* requests, the validation of T succeeds at most once: no two requests are    *)
(* past a successful validation of the same token, each on its way to writing  *)
(* the password and answering success.                                         *)
C1_ValidatedAtMostOnce ==
    \A r1, r2 \in Reqs :
        (IsReset(req[r1]) /\ IsReset(req[r2]) /\ req[r1].token = req[r2].token) => r1 = r2

(* C2: resetPassword is all-or-nothing: in no reachable state has a password   *)
(* been stored on the authority of a token that is still unused.               *)
C2_AllOrNothing ==
    \A r \in Reqs :
        (IsReset(req[r]) /\ req[r].pc = "markUsed"
            /\ \E u \in users : u.id = req[r].userId /\ u.password = req[r].hashed)
            => \A t \in tokens : t.token = req[r].token => t.used

C8_VerifyIffValid ==
    [][AnswersAtOnce("verifyToken") =>
        LET valid == {t \in tokens : t.token = last'.token /\ ~t.used /\ t.expires_at > now} IN
        IF valid # {}
          THEN /\ last'.resp.status = 200
               /\ \A t \in valid : t.user_id = last'.resp.userId
          ELSE last'.resp = InvalidOrExpired]_vars

\* verifyResetToken has rejected an unused token at the instant of its expiry
C8_Witness ==
    /\ last.op = "verifyToken" /\ last.resp = InvalidOrExpired
    /\ \E t \in tokens : t.token = last.token /\ ~t.used /\ t.expires_at = now

(* C9: a reset token that is used or expired never authorizes a password       *)
(* change: whenever a resetPassword request writes the password, a row with    *)
(* its token is unused and unexpired at that moment.                           *)
C9_NoWriteOnDeadToken ==
    [][\A r \in Reqs :
        (IsReset(req[r]) /\ req[r].pc = "updatePassword" /\ req'[r].pc = "markUsed")
            => \E t \in tokens : t.token = req[r].token /\ ~t.used /\ t.expires_at > now]_vars

Forbidden == Resp(403, "Access denied. Your email is not whitelisted.")
Unauthorized == Resp(401, "Invalid credentials")
\* the responses that report a uniqueness conflict
IsConflict(resp) == resp.status = 409 \/ resp.msg = "File with this name already exists"

\* what a login, and a resetPassword, would answer if it ran now, alone
LoginWould(e, p) ==
    IF ~IsWhitelisted(e) THEN 403
    ELSE IF BadCredentials(UserByEmail(e), p) THEN 401
    ELSE 200
ResetWould(tok) == IF SelectValidTokens(tok) = {} THEN 400 ELSE 200

(* C4: of two interleaved uploads of the same new filename one succeeds and    *)
(* the other is answered Conflict: an upload whose insert meets a record of    *)
(* its filename answers Conflict and adds no record, any other insert answers  *)
(* success and leaves exactly one record of the filename.                      *)
C4_RaceLoserGetsConflict ==
    [][\A r \in Reqs :
        (req[r].op = "upload" /\ req[r].pc = "insertFile" /\ Answers(r)) =>
            IF \E x \in files : x.filename = req[r].filename
              THEN IsConflict(last'.resp) /\ files' = files
              ELSE /\ last'.resp.status = 200
                   /\ Cardinality({x \in files' : x.filename = req[r].filename}) = 1]_vars

(* C5: a login for an email that is not in the whitelist is answered Forbidden *)
(* by the whitelist check itself, whatever users exist and whatever password   *)
(* is given; only a whitelisted email reaches the credential check.            *)
C5_NotWhitelistedForbidden ==
    [][/\ AnswersAtOnce("login") =>
            (~BagIn([email |-> last'.email], whitelist) /\ last'.resp = Forbidden)
       /\ \A r \in Reqs :
            (req[r].pc = "idle" /\ req'[r].op = "login") => BagIn([email |-> req'[r].email], whitelist)]_vars

\* a login with the right password of an existing user was answered Forbidden
C5_Witness ==
    /\ last.op = "login" /\ last.resp = Forbidden
    /\ ~BagIn([email |-> last.email], whitelist)
    /\ \E u \in users : u.email = last.email /\ bcryptCompare(last.password, u.password)

(* C6: a login is answered with a session token only if its email is in the    *)
(* whitelist (as long as no other request changed the stores while the login   *)
(* was in flight), a user with that email exists and the password matches the  *)
(* stored hash; the token carries that user's id. A whitelisted login with no  *)
(* such user or a wrong password is answered Unauthorized.                     *)
C6_LoginOnlyIf ==
    [][\A r \in Reqs :
        (req[r].op = "login" /\ Answers(r)) =>
            LET e == req[r].email
                match == {u \in users : u.email = e /\ bcryptCompare(req[r].password, u.password)} IN
            IF last'.resp.status = 200
              THEN /\ match # {}
                   /\ \A u \in match : last'.resp.token = jwtSign(u.id, now, SessionMinutes)
                   /\ (BagIn([email |-> e], whitelist) \/ r \in interleaved)
              ELSE match = {} /\ last'.resp = Unauthorized]_vars

\* a login was answered with a session token
C6_Witness ==
    /\ last.op = "login" /\ last.resp.status = 200
    /\ BagIn([email |-> last.email], whitelist)
    /\ \E u \in users : u.email = last.email /\ last.resp.token.userId = u.id

(* C7: a register for an email that already has a user fails with Conflict,    *)
(* creates no second user and leaves the stored password unchanged.            *)
C7_SecondRegisterConflict ==
    [][(AnswersAtOnce("register") /\ \E u \in users : u.email = last'.email)
          => (IsConflict(last'.resp) /\ users' = users)]_vars

(* C10: when resetPassword(T, P2) answers success without another request      *)
(* interleaved, a login of that (whitelisted) user succeeds with P2 and is     *)
(* Unauthorized with any other password, and a further resetPassword(T, p) is  *)
(* answered InvalidOrExpired; a resetPassword answered InvalidOrExpired        *)
(* changes nothing, so the stored password stays P2.                           *)
C10_ResetThenLogin ==
    [][/\ \A r \in Reqs :
            (IsReset(req[r]) /\ Answers(r) /\ last'.resp.status = 200 /\ r \notin interleaved) =>
                /\ \E u \in users' : u.id = req[r].userId
                /\ \A u \in users' : (u.id = req[r].userId /\ BagIn([email |-> u.email], whitelist')) =>
                      \A p \in Passwords :
                          LoginWould(u.email, p)' = (IF p = req[r].password THEN 200 ELSE 401)
                /\ \A tok \in {req[r].token} : ResetWould(tok)' = 400
       /\ AnswersAtOnce("resetPassword") => (last'.resp = InvalidOrExpired /\ db' = db)]_vars

\* a whitelisted user's password was reset to pw2 and the token is used
C10_Witness ==
    /\ IsReset(last) /\ last.resp.status = 200 /\ last.password = "pw2"
    /\ \E u \in users : /\ u.id = last.userId
                        /\ BagIn([email |-> u.email], whitelist)
                        /\ bcryptCompare("pw2", u.password)
    /\ \E t \in tokens : t.token = last.token
    /\ \A t \in tokens : t.token = last.token => t.used

(* C11: a deleteFile of an existing record removes the record and reports      *)
(* dbRecordDeleted = true whether or not the blob could be unlinked, and the   *)
(* physicalFileDeleted flag it reports equals whether its unlink succeeded     *)
(* (false when the blob was missing or the unlink failed).                     *)
C11_FlagsReportUnlink ==
    [][\A r \in Reqs :
        (req[r].op = "deleteFile" /\ req[r].pc = "deleteRecord" /\ Answers(r)) =>
            /\ last'.resp.physicalFileDeleted = req[r].unlinked
            /\ (\E x \in files : x.id = req[r].fileId) =>
                   /\ last'.resp.dbRecordDeleted
                   /\ ~\E x \in files' : x.id = req[r].fileId]_vars

(* C12: in every reachable state, under any interleaving of requestPasswordReset *)
(* and deleteAccount, every reset token row references an existing user row: no  *)
(* token is created for a user that is gone, and no user row is removed while a  *)
(* token of that user stays.                                                     *)
C12_TokensReferenceUsers ==
    \A t \in tokens : \E u \in users : u.id = t.user_id

\* a request-password-reset that found the user was refused its insert, because
\* a deleteAccount had removed the user in between
C12_Witness ==
    /\ last.op = "requestReset" /\ last.resp = Resp(500, "ER_NO_REFERENCED_ROW")
    /\ ~\E u \in users : u.id = last.userId
    /\ ~\E t \in tokens : t.user_id = last.userId

(* C13: in every reachable state, after any interleaving of uploadFile and     *)
(* deleteFile, no two file records share a filename; an upload answered while  *)
(* a record of its filename exists is rejected and leaves the records, with    *)
(* the existing record's id and path, as they were.                            *)
C13_UniqueFilenames ==
    /\ [](\A x, y \in files : x.filename = y.filename => x = y)
    /\ [][/\ (AnswersAtOnce("upload") /\ \E x \in files : x.filename = last'.filename)
                => (last'.resp.status # 200 /\ files' = files)
           /\ \A r \in Reqs :
                (req[r].op = "upload" /\ Answers(r) /\ \E x \in files : x.filename = req[r].filename)
                    => (last'.resp.status # 200 /\ files' = files)]_vars

\* an upload that lost the race for its filename was rejected by the insert,
\* and the record of the winner is the only one of that filename
C13_Witness ==
    /\ last.op = "upload" /\ last.resp = Resp(500, "ER_DUP_ENTRY")
    /\ \E x \in files : x.filename = last.filename /\ x.path # last.path

(* C14: a deleteAccount whose password does not match the stored hash of its   *)
(* user is answered Unauthorized and changes no state: the user row, the       *)
(* user's reset tokens, the whitelist and the file records are as before; only *)
(* a request whose password matches goes on to the deletes.                    *)
C14_WrongPasswordNoChange ==
    [][/\ (/\ AnswersAtOnce("deleteUser")
            /\ authenticate(last'.token) = NoResp
            /\ \E u \in users : u.id = last'.userId /\ ~bcryptCompare(last'.password, u.password))
                => (last'.resp = Resp(401, "Invalid password") /\ db' = db)
       /\ \A r \in Reqs :
            (req[r].pc = "idle" /\ IsDelete(req'[r])) =>
                /\ \E u \in users : u.id = req'[r].userId /\ bcryptCompare(req'[r].password, u.password)
                /\ db' = db]_vars

\* a deleteAccount with the wrong password was answered Unauthorized; the user
\* and a reset token of the user are still there
C14_Witness ==
    /\ IsDelete(last) /\ last.resp = Resp(401, "Invalid password")
    /\ \E u \in users : u.id = last.userId /\ ~bcryptCompare(last.password, u.password)
    /\ \E t \in tokens : t.user_id = last.userId

\* the routes behind the authenticate middleware
ProtectedOps == {"upload", "deleteUser", "whitelistAdd", "whitelistList", "whitelistRemove"}

(* C15: a protected operation (uploadFile, deleteAccount, whitelist add, list  *)
(* and remove) called with an absent, malformed, forged or expired bearer      *)
(* token is answered with one and the same Unauthorized response in all four   *)
(* cases, and changes no store.                                                *)
C15_OneUnauthorized ==
    [][\A op \in ProtectedOps :
        (AnswersAtOnce(op) /\ ~(last'.token.sig = "ok" /\ now < last'.token.exp)) =>
            /\ last'.resp = Resp(401, "Access denied")
            /\ db' = db]_vars

(* C16: for any sequence or interleaving of addWhitelistEntry requests with    *)
(* the same well-formed email, the one that finds the email absent answers     *)
(* Created and every other one answers Conflict and changes nothing, and the   *)
(* whitelist never holds an email more than once; a removeWhitelistEntry of    *)
(* an absent email answers NotFound and changes nothing.                       *)
C16_WhitelistAddOnce ==
    /\ [](\A w \in BagToSet(whitelist) : CopiesIn(w, whitelist) = 1)
    /\ [][/\ (AnswersAtOnce("whitelistAdd") /\ authenticate(last'.token) = NoResp
                                             /\ EmailFormatOk(last'.email)) =>
                IF IsWhitelisted(last'.email)
                  THEN last'.resp.status = 409 /\ db' = db
                  ELSE /\ last'.resp.status = 201
                       /\ whitelist' = whitelist (+) SetToBag({[email |-> last'.email]})
           /\ (AnswersAtOnce("whitelistRemove") /\ authenticate(last'.token) = NoResp
                                                /\ ~IsWhitelisted(last'.email)) =>
                (last'.resp = Resp(404, "Email not found in whitelist") /\ db' = db)]_vars

\* an add of an email that was already in the whitelist was answered Conflict
C16_Witness ==
    /\ last.op = "whitelistAdd" /\ last.resp.status = 409
    /\ CopiesIn([email |-> last.email], whitelist) = 1

(* C17: deleteFile attempts the physical unlink before it deletes the record,  *)
(* and a deleteFile that stops between its steps leaves at worst an orphaned   *)
(* blob: in no reachable state does a file record remain whose blob was        *)
(* removed by that deleteFile.                                                 *)
C17_AtWorstOrphanBlob ==
    \A r \in Reqs :
        (req[r].op = "deleteFile" /\ req[r].unlinked) =>
            ~\E x \in files : x.id = req[r].fileId

(* C17, amended: deleteFile attempts the physical unlink before it deletes the *)
(* record: its first step changes nothing, its second step is the unlink and   *)
(* removes at most the blob of the record, and only its third step removes the *)
(* record; a deleteFile that stops between its steps leaves the record in      *)
(* place, at worst with its blob gone.                                         *)
C17_UnlinkBeforeRecord ==
    [][\A r \in Reqs :
        (req'[r] # req[r] /\ (req[r].op = "deleteFile" \/ req'[r].op = "deleteFile")) =>
            /\ req[r].pc = "idle" =>
                   /\ req'[r].pc = "unlink"
                   /\ \E x \in files : x.id = req'[r].fileId /\ x.path = req'[r].path
                   /\ db' = db
            /\ req[r].pc = "unlink" =>
                   /\ req'[r].pc = "deleteRecord"
                   /\ files' = files
                   /\ blobs' = (IF req'[r].unlinked THEN blobs \ {req[r].path} ELSE blobs)
                   /\ req'[r].unlinked => req[r].path \in blobs
            /\ req[r].pc = "deleteRecord" =>
                   /\ Answers(r)
                   /\ files' = {x \in files : x.id # req[r].fileId}
                   /\ blobs' = blobs]_vars

\* a deleteFile is between its unlink and its DELETE: the blob is gone and the
\* record is still there
C17_Witness ==
    \E r \in Reqs :
        /\ req[r].op = "deleteFile" /\ req[r].pc = "deleteRecord" /\ req[r].unlinked
        /\ req[r].path \notin blobs
        /\ \E x \in files : x.id = req[r].fileId /\ x.path = req[r].path

\* token row t is in the table after the step, changed at most in its used flag,
\* and that only from FALSE to TRUE
KeptByStep(t) ==
    \E n \in tokens' : /\ n.id = t.id
                        /\ n = [t EXCEPT !.used = n.used]
                        /\ t.used => n.used

(* C18: reset token rows are never physically deleted: a token row created by  *)
(* requestPasswordReset is in the table in every later state, after any        *)
(* resetPassword, verifyResetToken, deleteAccount and expiry, and its used     *)
(* flag only ever changes from false to true.                                  *)
C18_TokensNeverDeleted ==
    [][\A t \in tokens : KeptByStep(t)]_vars

(* C18, amended: a reset token row is never physically deleted except by the   *)
(* deleteAccount of its user, which removes the rows of that user together     *)
(* with the user row; in every other step, after any resetPassword,            *)
(* verifyResetToken and expiry, the row stays, and its used flag only ever     *)
(* changes from false to true.                                                 *)
C18_TokensKeptUntilAccountDeleted ==
    [][\A t \in tokens :
        \/ KeptByStep(t)
        \/ \E r \in Reqs :
              /\ IsDelete(req[r]) /\ Answers(r) /\ last'.resp.status = 200
              /\ req[r].userId = t.user_id
              /\ ~\E u \in users' : u.id = t.user_id]_vars

\* a token row that was consumed by a resetPassword and has expired since is
\* still in the table
C18_Witness ==
    /\ now > 0
    /\ \E t \in tokens : t.used /\ t.expires_at <= now /\ \E u \in users : u.id = t.user_id

(* C19: whenever a resetPassword(T, newPassword) reports success, the password *)
(* of the user T was issued for has been changed to newPassword by the request *)
(* and T has been marked used by it: when it answers, the user row holds the   *)
(* hash the request wrote and a row of T is used, also when a deleteAccount of *)
(* the user or another resetPassword with T ran between its steps.             *)
C19_SuccessMeansChanged ==
    [][\A r \in Reqs :
        (IsReset(req[r]) /\ Answers(r) /\ last'.resp.status = 200) =>
            /\ \E u \in users' : u.id = req[r].userId /\ u.password = req[r].hashed
            /\ \E t \in tokens' : t.token = req[r].token /\ t.user_id = req[r].userId /\ t.used]_vars

(* C20: a successful resetPassword(T, p) marks used exactly the token rows     *)
(* whose token value is T and changes the password of exactly the user T was   *)
(* issued for: its first step writes nothing, its second writes the one user   *)
(* row, its third writes the used flag of the rows of T; every other token row *)
(* (other unexpired tokens of the same user too), every other user, the        *)
(* whitelist and the file records are left as they were.                       *)
C20_ResetFrame ==
    [][\A r \in Reqs :
        (req'[r] # req[r] /\ (IsReset(req[r]) \/ IsReset(req'[r]))) =>
            /\ req[r].pc = "idle" =>
                   /\ db' = db
                   /\ \A t \in tokens : t.token = req'[r].token => t.user_id = req'[r].userId
            /\ req[r].pc = "updatePassword" =>
                   /\ \A u \in users : IF u.id = req[r].userId
                                          THEN [u EXCEPT !.password = req[r].hashed] \in users'
                                          ELSE u \in users'
                   /\ Cardinality(users') = Cardinality(users)
                   /\ <<tokens, whitelist, files, blobs>>' = <<tokens, whitelist, files, blobs>>
            /\ req[r].pc = "markUsed" =>
                   /\ \A t \in tokens : IF t.token = req[r].token
                                           THEN [t EXCEPT !.used = TRUE] \in tokens'
                                           ELSE t \in tokens'
                   /\ Cardinality(tokens') = Cardinality(tokens)
                   /\ <<users, whitelist, files, blobs>>' = <<users, whitelist, files, blobs>>]_vars

\* a resetPassword has succeeded for one user: its token is used, another
\* unexpired token of the same user is still unused, and the other user has
\* the password of the registration
C20_Witness ==
    /\ IsReset(last) /\ last.resp.status = 200
    /\ \E t \in tokens : t.token = last.token /\ t.used
    /\ \E t \in tokens : /\ t.token # last.token /\ t.user_id = last.userId
                          /\ ~t.used /\ t.expires_at > now
    /\ \E u \in users : u.id = last.userId /\ bcryptCompare("pw2", u.password)
    /\ \E u \in users : u.id # last.userId /\ bcryptCompare("pw1", u.password)

====
